---- MODULE Spec2Model ----
(***************************************************************************)
(* SSE bridge of the Smart Diff MCP server (crates/mcp-server/             *)
(* sse_bridge.py): one child process spoken to over a pipe pair, a set of  *)
(* subscriber queues, and the three aiohttp handlers, run by one asyncio   *)
(* event loop.  A handler step is the code between two suspension points   *)
(* of the coroutine; the child is a separate process and runs at any time. *)
(***************************************************************************)
EXTENDS Integers, Sequences, FiniteSets

\* ---------------------------------------------------------------- bounds
NumCallers == 2      \* calls of /message and /health, numbered in arrival order
NumSubs == 2         \* GET /sse connections, numbered in arrival order
MaxId == 2           \* correlation identifiers 1..MaxId
MaxNoise == 1        \* lines the child emits that answer no request

Callers == 1..NumCallers
Subs == 1..NumSubs
Ids == 1..MaxId

\* ------------------------------------------------------------- constants
None == 0                 \* Python's None (an absent id)
NoTask == 0               \* the event loop runs no handler
InternalError == -32603   \* JSON-RPC "internal error"

VARIABLES
    phase,      \* "init" | "serving" | "cleanup" | "waiting" | "stopped"
    process,    \* bridge.process: "none" or "popen"
    childMode,  \* the program behind --binary: "echo" or "arbitrary"
    childState, \* "unstarted" | "running" | "mute" (running, stdout closed) | "exited"
    childIn,    \* lines in the child's stdin pipe, not yet read by the child
    childOut,   \* lines in the child's stdout pipe, not yet read by the bridge
    signals,    \* signals sent to the child by stop_mcp_server, in order
    clients,    \* bridge.clients: the subscribers whose queue is registered
    queue,      \* queue[s]: the asyncio.Queue of subscriber s
    spc,        \* spc[s]: where sse_handler of connection s stands
    pending,    \* pending[s]: the local `message` of sse_handler
    stream,     \* stream[s]: the events written to the response of s
    cpc,        \* cpc[c]: where message_handler of call c stands
    payload,    \* payload[c]: the body of the POST
    result,     \* result[c]: what the call ended with
    loopOwner,  \* the handler the event loop is running (blocked in), or NoTask
    \* history, read by no action's guard
    writes,     \* how many lines were written to the child's stdin
    replies,    \* how many structured lines the child wrote to its stdout
    noise,      \* how many lines the child wrote that answer no request
    bcastLog,   \* one entry per broadcast_to_clients call
    enqueued,   \* enqueued[s]: every entry ever put on queue[s]
    closedBy    \* closedBy[s]: why sse_handler of s ended

vars == <<phase, process, childMode, childState, childIn, childOut, signals,
          clients, queue, spc, pending, stream, cpc, payload, result,
          loopOwner, writes, replies, noise, bcastLog, enqueued, closedBy>>

childVars == <<childState, childIn, childOut, replies, noise>>
subVars == <<clients, queue, spc, pending, stream, enqueued, closedBy>>
callVars == <<cpc, payload, result, writes, bcastLog>>

\* ------------------------------------------------------------- messages
\* A POST body: bytes that are not JSON, JSON that is no object (a list, a
\* scalar), or a JSON object with or without an 'id' key.
Payloads ==
    {[body |-> b, hasId |-> FALSE, id |-> None] : b \in {"garbage", "array", "object"}}
    \cup {[body |-> "object", hasId |-> TRUE, id |-> i] : i \in Ids}

\* A GET /health has no body.
ProbeCall == [body |-> "health", hasId |-> FALSE, id |-> None]

\* The dict request.json() returns for an object body.
Message(p) == [hasId |-> p.hasId, id |-> p.id, method |-> "call"]

\* json.dumps(message): the text of a structured message.
Dumps(m) == [t |-> "json", val |-> m]

\* Lines of the child's stdout: a structured line, free text, a blank line,
\* bytes that are not UTF-8.
TextLines == {[t |-> "log"], [t |-> "blank"], [t |-> "badutf8"]}

\* response_line.decode().strip(), then json.loads(line).
Decode(line) ==
    CASE line.t = "badutf8" -> "UnicodeDecodeError"
      [] line.t = "blank" -> "skip"
      [] line.t = "log" -> "skip"
      [] OTHER -> "message"

\* HTTP responses of message_handler.
NoResult == [status |-> 0, kind |-> "pending"]
Ack == [status |-> 200, kind |-> "empty"]
Reply(m) == [status |-> 200, kind |-> "json", body |-> m]
ErrorEnvelope(id, text) ==
    [status |-> 500, kind |-> "json",
     body |-> [jsonrpc |-> "2.0", id |-> id,
               error |-> [code |-> InternalError, message |-> text]]]
\* An exception left the handler: aiohttp answers 500 with its own page.
Unhandled == [status |-> 500, kind |-> "unhandled"]

\* HTTP responses of health_handler.
HealthResponse(healthy) ==
    IF healthy
    THEN [status |-> 200, kind |-> "health", body |-> "healthy"]
    ELSE [status |-> 503, kind |-> "health", body |-> "unhealthy"]

\* SSE events.
EndpointEvent == [event |-> "endpoint", data |-> "/message"]
MessageEvent(text) == [event |-> "message", data |-> text]

\* ------------------------------------------------------------ event loop
\* A handler runs when the loop is idle, or goes on when the loop is inside it.
Runnable(t) == loopOwner \in {NoTask, t}

TypeOK ==
    /\ phase \in {"init", "serving", "cleanup", "waiting", "stopped"}
    /\ process \in {"none", "popen"}
    /\ childMode \in {"echo", "arbitrary"}
    /\ childState \in {"unstarted", "running", "mute", "exited"}
    /\ clients \subseteq Subs
    /\ spc \in [Subs -> {"idle", "endpoint", "waiting", "writing", "closed"}]
    /\ cpc \in [Callers -> {"idle", "parse", "reading", "done"}]
    /\ payload \in [Callers -> Payloads \cup {ProbeCall}]
    /\ loopOwner \in {NoTask} \cup Callers
    /\ noise \in 0..MaxNoise

Init ==
    /\ phase = "init"
    /\ process = "none"
    /\ childMode \in {"echo", "arbitrary"}
    /\ childState = "unstarted"
    /\ childIn = <<>>
    /\ childOut = <<>>
    /\ signals = <<>>
    /\ clients = {}
    /\ queue = [s \in Subs |-> <<>>]
    /\ spc = [s \in Subs |-> "idle"]
    /\ pending = [s \in Subs |-> None]
    /\ stream = [s \in Subs |-> <<>>]
    /\ cpc = [c \in Callers |-> "idle"]
    /\ payload = [c \in Callers |-> [body |-> "garbage", hasId |-> FALSE, id |-> None]]
    /\ result = [c \in Callers |-> NoResult]
    /\ loopOwner = NoTask
    /\ writes = 0
    /\ replies = 0
    /\ noise = 0
    /\ bcastLog = <<>>
    /\ enqueued = [s \in Subs |-> <<>>]
    /\ closedBy = [s \in Subs |-> "open"]

\* ----------------------------------------------------- child supervisor
\* start_background_tasks -> start_mcp_server: Popen with pipes.
StartMcpServer ==
    /\ phase = "init"
    /\ phase' = "serving"
    /\ process' = "popen"
    /\ childState' = "running"
    /\ UNCHANGED <<childMode, childIn, childOut, signals, replies, noise,
                   loopOwner>>
    /\ UNCHANGED subVars
    /\ UNCHANGED callVars

\* Popen raises (the binary is missing): on_startup fails, nothing is served
\* and the application is cleaned up with bridge.process still None.
StartFails ==
    /\ phase = "init"
    /\ phase' = "cleanup"
    /\ UNCHANGED <<process, childMode, signals, loopOwner>>
    /\ UNCHANGED childVars
    /\ UNCHANGED subVars
    /\ UNCHANGED callVars

\* ------------------------------------------------------ send_to_mcp
\* send_to_mcp has no await: stdin.write and stdout.readline are blocking
\* calls, so the event loop stays inside the handler that called it.
AfterWriteReleased(c) == NoTask
AfterWrite(c) == c

\* The write fails (BrokenPipeError) once the child has exited; the guard of
\* line 66 rejects a bridge without a process.
CannotWrite == IF process = "none" THEN TRUE ELSE childState = "exited"
WriteError == IF process = "none" THEN "MCP server not started" ELSE "Broken pipe"

\* readline() returns b'' at end of stream: the pipe is empty and its
\* writer is gone.
AtEof == childOut = <<>> /\ childState \in {"mute", "exited"}

\* ---------------------------------------------- broadcast_to_clients
\* client_queue.put on a Queue() without maxsize neither waits nor raises.
PutFails(s) == FALSE
DeadClients(cl) == {s \in cl : PutFails(s)}

BroadcastAll(q, cl, text) == [s \in Subs |-> Append(q[s], text)]
BroadcastWaiting(q, cl, text) ==
    [s \in Subs |-> IF s \in cl /\ spc[s] = "waiting" THEN Append(q[s], text) ELSE q[s]]
Broadcast(q, cl, text) ==
    [s \in Subs |-> IF s \in cl /\ ~PutFails(s) THEN Append(q[s], text) ELSE q[s]]

\* ------------------------------------------------------ message_handler
\* Line 168: a message without 'id' is a notification.
IsNotificationNever(p) == FALSE
IsNotification(p) == ~p.hasId

\* Line 185: message.get('id') if 'message' in locals() else None.
ErrorIdNone(p) == None
ErrorId(p) == IF p.body = "garbage" THEN None ELSE p.id

ErrorResponseOk(p, text) ==
    IF p.body = "array"
    THEN Unhandled
    ELSE [ErrorEnvelope(ErrorId(p), text) EXCEPT !.status = 200]
\* The except block, lines 181-191.  For a body that parsed to a list or a
\* scalar, `message` is bound and message.get raises AttributeError again,
\* inside the except block: nothing catches it.
ErrorResponse(p, text) ==
    IF p.body = "array" THEN Unhandled ELSE ErrorEnvelope(ErrorId(p), text)

\* Line 179: web.json_response(response).
JsonResponseOfRequest(message, response) == Reply(message)
JsonResponse(message, response) == Reply(response)

\* A POST arrives; the handler waits at `await request.json()`.
MsgReceive(c) ==
    /\ phase = "serving"
    /\ loopOwner = NoTask
    /\ cpc[c] = "idle"
    /\ c > 1 => cpc[c - 1] # "idle"
    /\ \E p \in Payloads : payload' = [payload EXCEPT ![c] = p]
    /\ cpc' = [cpc EXCEPT ![c] = "parse"]
    /\ UNCHANGED <<phase, process, childMode, signals, loopOwner, result,
                   writes, bcastLog>>
    /\ UNCHANGED childVars
    /\ UNCHANGED subVars

\* Lines 164-165 raise: the body is not JSON (JSONDecodeError), or is JSON
\* but has no .get (AttributeError).
MsgReject(c) ==
    /\ cpc[c] = "parse"
    /\ Runnable(c)
    /\ payload[c].body # "object"
    /\ result' = [result EXCEPT ![c] =
                    ErrorResponse(payload[c],
                                  IF payload[c].body = "garbage"
                                  THEN "JSONDecodeError" ELSE "AttributeError")]
    /\ cpc' = [cpc EXCEPT ![c] = "done"]
    /\ UNCHANGED <<phase, process, childMode, signals, loopOwner, payload,
                   writes, bcastLog>>
    /\ UNCHANGED childVars
    /\ UNCHANGED subVars

\* Lines 168-170: a notification is acknowledged.
MsgAck(c) ==
    /\ cpc[c] = "parse"
    /\ Runnable(c)
    /\ payload[c].body = "object"
    /\ IsNotification(payload[c])
    /\ result' = [result EXCEPT ![c] = Ack]
    /\ cpc' = [cpc EXCEPT ![c] = "done"]
    /\ UNCHANGED <<phase, process, childMode, signals, loopOwner, payload,
                   writes, bcastLog>>
    /\ UNCHANGED childVars
    /\ UNCHANGED subVars

\* Lines 173, 66-73: the request is written to the child's stdin and the
\* handler goes on to readline.
MsgSend(c) ==
    /\ cpc[c] = "parse"
    /\ Runnable(c)
    /\ payload[c].body = "object"
    /\ ~IsNotification(payload[c])
    /\ ~CannotWrite
    /\ childIn' = Append(childIn, Dumps(Message(payload[c])))
    /\ writes' = writes + 1
    /\ cpc' = [cpc EXCEPT ![c] = "reading"]
    /\ loopOwner' = AfterWrite(c)
    /\ UNCHANGED <<phase, process, childMode, signals, payload, result,
                   bcastLog, childState, childOut, replies, noise>>
    /\ UNCHANGED subVars

\* Lines 66-73 raise: no process, or the pipe is broken.
MsgSendFail(c) ==
    /\ cpc[c] = "parse"
    /\ Runnable(c)
    /\ payload[c].body = "object"
    /\ ~IsNotification(payload[c])
    /\ CannotWrite
    /\ result' = [result EXCEPT ![c] = ErrorResponse(payload[c], WriteError)]
    /\ cpc' = [cpc EXCEPT ![c] = "done"]
    /\ UNCHANGED <<phase, process, childMode, signals, loopOwner, payload,
                   writes, bcastLog>>
    /\ UNCHANGED childVars
    /\ UNCHANGED subVars

\* Lines 77-83, 90-93: a blank or non-JSON line is dropped.
McpSkipLine(c) ==
    /\ cpc[c] = "reading"
    /\ Runnable(c)
    /\ childOut # <<>>
    /\ Decode(Head(childOut)) = "skip"
    /\ childOut' = Tail(childOut)
    /\ UNCHANGED <<phase, process, childMode, signals, loopOwner, childState,
                   childIn, replies, noise>>
    /\ UNCHANGED callVars
    /\ UNCHANGED subVars

\* Lines 77-79 (end of stream) and 81 (bytes that do not decode): the
\* exchange raises, message_handler answers from its except block.
McpFail(c) ==
    /\ cpc[c] = "reading"
    /\ Runnable(c)
    /\ IF childOut = <<>> THEN AtEof
       ELSE Decode(Head(childOut)) = "UnicodeDecodeError"
    /\ childOut' = IF childOut = <<>> THEN childOut ELSE Tail(childOut)
    /\ result' = [result EXCEPT ![c] =
                    ErrorResponse(payload[c],
                                  IF childOut = <<>>
                                  THEN "MCP server closed connection"
                                  ELSE "UnicodeDecodeError")]
    /\ cpc' = [cpc EXCEPT ![c] = "done"]
    /\ loopOwner' = NoTask
    /\ UNCHANGED <<phase, process, childMode, signals, payload, writes,
                   bcastLog, childState, childIn, replies, noise>>
    /\ UNCHANGED subVars

\* Lines 87-89, 176, 179: the first structured line is the response; it is
\* put on every registered queue and returned.
McpReply(c) ==
    /\ cpc[c] = "reading"
    /\ Runnable(c)
    /\ childOut # <<>>
    /\ Decode(Head(childOut)) = "message"
    /\ LET response == Head(childOut).val
       IN /\ queue' = Broadcast(queue, clients, Dumps(response))
          /\ enqueued' = Broadcast(enqueued, clients, Dumps(response))
          /\ clients' = clients \ DeadClients(clients)
          /\ bcastLog' = Append(bcastLog, [msg |-> response, members |-> clients,
                                           by |-> c])
          /\ result' = [result EXCEPT ![c] =
                          JsonResponse(Message(payload[c]), response)]
    /\ childOut' = Tail(childOut)
    /\ cpc' = [cpc EXCEPT ![c] = "done"]
    /\ loopOwner' = NoTask
    /\ UNCHANGED <<phase, process, childMode, signals, payload, writes,
                   childState, childIn, replies, noise, spc, pending, stream,
                   closedBy>>

\* ------------------------------------------------------- health_handler
\* Line 196: bridge and bridge.process and bridge.process.poll() is None.
HealthyIfStarted == process # "none"
Healthy == process # "none" /\ childState # "exited"

\* Lines 194-199: the handler has no await; it answers in the step it starts.
HealthHandler(c) ==
    /\ phase = "serving"
    /\ loopOwner = NoTask
    /\ cpc[c] = "idle"
    /\ c > 1 => cpc[c - 1] # "idle"
    /\ payload' = [payload EXCEPT ![c] = ProbeCall]
    /\ result' = [result EXCEPT ![c] = HealthResponse(Healthy)]
    /\ cpc' = [cpc EXCEPT ![c] = "done"]
    /\ UNCHANGED <<phase, process, childMode, signals, loopOwner, writes,
                   bcastLog>>
    /\ UNCHANGED childVars
    /\ UNCHANGED subVars

\* ---------------------------------------------------------- sse_handler
\* Line 141: asyncio.Queue is first in, first out.
QueueGetLast(q) == [item |-> q[Len(q)], rest |-> SubSeq(q, 1, Len(q) - 1)]
QueueGet(q) == [item |-> Head(q), rest |-> Tail(q)]

\* Line 155: bridge.clients.discard(client_queue).
DiscardNothing(cl, s) == cl
Discard(cl, s) == cl \ {s}

\* The finally block: the handler of s ends for the reason `why`.
SseEnd(s, why) ==
    /\ clients' = Discard(clients, s)
    /\ spc' = [spc EXCEPT ![s] = "closed"]
    /\ closedBy' = [closedBy EXCEPT ![s] = why]

\* Line 136: after registering, the handler writes the endpoint event
\* before it looks at its queue.
AfterRegisterStream == "waiting"
AfterRegister == "endpoint"

\* Lines 126-130: response.prepare returns, the queue is created and
\* registered; the handler goes on to write the endpoint event.
SseConnect(s) ==
    /\ phase = "serving"
    /\ loopOwner = NoTask
    /\ spc[s] = "idle"
    /\ s > 1 => spc[s - 1] # "idle"
    /\ clients' = clients \cup {s}
    /\ queue' = [queue EXCEPT ![s] = <<>>]
    /\ spc' = [spc EXCEPT ![s] = AfterRegister]
    /\ UNCHANGED <<phase, process, childMode, signals, loopOwner, pending,
                   stream, enqueued, closedBy>>
    /\ UNCHANGED childVars
    /\ UNCHANGED callVars

\* Line 136: the write of the endpoint event completes, or the transport
\* rejects it (lines 152-155).
SseEndpoint(s) ==
    /\ loopOwner = NoTask
    /\ spc[s] = "endpoint"
    /\ \/ /\ stream' = [stream EXCEPT ![s] = Append(@, EndpointEvent)]
          /\ spc' = [spc EXCEPT ![s] = "waiting"]
          /\ UNCHANGED <<clients, closedBy>>
       \/ /\ SseEnd(s, "endpoint write failed")
          /\ UNCHANGED stream
    /\ UNCHANGED <<phase, process, childMode, signals, loopOwner, queue,
                   pending, enqueued>>
    /\ UNCHANGED childVars
    /\ UNCHANGED callVars

\* Lines 141-145: get returns the oldest entry and its write is started.
SseGet(s) ==
    /\ loopOwner = NoTask
    /\ spc[s] = "waiting"
    /\ queue[s] # <<>>
    /\ pending' = [pending EXCEPT ![s] = QueueGet(queue[s]).item]
    /\ queue' = [queue EXCEPT ![s] = QueueGet(queue[s]).rest]
    /\ spc' = [spc EXCEPT ![s] = "writing"]
    /\ UNCHANGED <<phase, process, childMode, signals, loopOwner, clients,
                   stream, enqueued, closedBy>>
    /\ UNCHANGED childVars
    /\ UNCHANGED callVars

\* Lines 145-148: the write of the message event completes, or the transport
\* rejects it: break, then the finally block.
SseWrite(s) ==
    /\ loopOwner = NoTask
    /\ spc[s] = "writing"
    /\ \/ /\ stream' = [stream EXCEPT ![s] = Append(@, MessageEvent(pending[s]))]
          /\ spc' = [spc EXCEPT ![s] = "waiting"]
          /\ UNCHANGED <<clients, closedBy>>
       \/ /\ SseEnd(s, "message write failed")
          /\ UNCHANGED stream
    /\ UNCHANGED <<phase, process, childMode, signals, loopOwner, queue,
                   pending, enqueued>>
    /\ UNCHANGED childVars
    /\ UNCHANGED callVars

\* Lines 150-155: the client disconnects and the handler is cancelled at
\* the await it is suspended in.
SseCancel(s) ==
    /\ loopOwner = NoTask
    /\ spc[s] \in {"endpoint", "waiting", "writing"}
    /\ SseEnd(s, "cancelled")
    /\ UNCHANGED <<phase, process, childMode, signals, loopOwner, queue,
                   pending, stream, enqueued>>
    /\ UNCHANGED childVars
    /\ UNCHANGED callVars

\* ------------------------------------------------------------ the child
\* The k-th structured line the child emits carries result k.
ChildMessage(hasId, id) == [hasId |-> hasId, id |-> id, result |-> replies + 1]

Emit(line) ==
    /\ childOut' = Append(childOut, line)
    /\ replies' = IF line.t = "json" THEN replies + 1 ELSE replies

\* The child reads one request line and answers it with one structured
\* line that carries the id of the request.
ChildAnswer ==
    /\ childState = "running"
    /\ childIn # <<>>
    /\ childIn' = Tail(childIn)
    /\ Emit(Dumps(ChildMessage(TRUE, Head(childIn).val.id)))
    /\ UNCHANGED <<phase, process, childMode, signals, loopOwner, childState,
                   noise>>
    /\ UNCHANGED subVars
    /\ UNCHANGED callVars

\* The child writes a line that answers nothing: free text, a blank line,
\* and, if it is no echo child, undecodable bytes or a notification.  Lines
\* written once the service has stopped taking requests are read by nobody.
ChildNoise ==
    /\ phase = "serving"
    /\ childState = "running"
    /\ noise < MaxNoise
    /\ noise' = noise + 1
    /\ \E line \in IF childMode = "echo"
                   THEN {[t |-> "log"], [t |-> "blank"]}
                   ELSE TextLines \cup {Dumps(ChildMessage(FALSE, None))} :
          Emit(line)
    /\ UNCHANGED <<phase, process, childMode, signals, loopOwner, childState,
                   childIn>>
    /\ UNCHANGED subVars
    /\ UNCHANGED callVars

\* The child closes its stdout and keeps running (never an echo child).
\* Once the service has stopped taking requests nobody reads the stream.
ChildCloseStdout ==
    /\ phase = "serving"
    /\ childMode = "arbitrary"
    /\ childState = "running"
    /\ childState' = "mute"
    /\ UNCHANGED <<phase, process, childMode, signals, loopOwner, childIn,
                   childOut, replies, noise>>
    /\ UNCHANGED subVars
    /\ UNCHANGED callVars

\* The child exits: on its own (never an echo child), or after a signal.
ChildExit ==
    /\ childState \in {"running", "mute"}
    /\ IF childMode = "echo" THEN signals # <<>> ELSE TRUE
    /\ childState' = "exited"
    /\ UNCHANGED <<phase, process, childMode, signals, loopOwner, childIn,
                   childOut, replies, noise>>
    /\ UNCHANGED subVars
    /\ UNCHANGED callVars

\* ------------------------------------------------------ stop_mcp_server
\* run_app leaves the serving phase: aiohttp waits for the calls in
\* progress and cancels the streaming handlers, then runs on_cleanup.
Shutdown ==
    /\ phase = "serving"
    /\ loopOwner = NoTask
    /\ \A c \in Callers : cpc[c] \in {"idle", "done"}
    /\ phase' = "cleanup"
    /\ LET live == {s \in Subs : spc[s] \in {"endpoint", "waiting", "writing"}}
       IN /\ spc' = [s \in Subs |-> IF s \in live THEN "closed" ELSE spc[s]]
          /\ closedBy' = [s \in Subs |-> IF s \in live THEN "cancelled" ELSE closedBy[s]]
          /\ clients' = clients \ live
    /\ UNCHANGED <<process, childMode, signals, loopOwner, queue, pending,
                   stream, enqueued>>
    /\ UNCHANGED childVars
    /\ UNCHANGED callVars

\* Lines 55-57: terminate() signals a child that has not exited.  Called by
\* on_cleanup, and callable again once a stop has returned.
StopTerminateAlways ==
    /\ phase \in {"cleanup", "stopped"}
    /\ phase' = IF process = "none" THEN "stopped" ELSE "waiting"
    /\ signals' = Append(signals, "term")
    /\ UNCHANGED <<process, childMode, loopOwner>>
    /\ UNCHANGED childVars
    /\ UNCHANGED subVars
    /\ UNCHANGED callVars
StopTerminate ==
    /\ phase \in {"cleanup", "stopped"}
    /\ phase' = IF process = "none" THEN "stopped" ELSE "waiting"
    /\ signals' = IF process # "none" /\ childState # "exited"
                  THEN Append(signals, "term") ELSE signals
    /\ UNCHANGED <<process, childMode, loopOwner>>
    /\ UNCHANGED childVars
    /\ UNCHANGED subVars
    /\ UNCHANGED callVars

\* Lines 58-62: wait(timeout=5) returns when the child has exited; when the
\* time is up with the child still running, kill(): SIGKILL ends the child,
\* it can neither be caught nor ignored.
StopWaitNoKill ==
    /\ phase = "waiting"
    /\ phase' = "stopped"
    /\ UNCHANGED <<process, childMode, loopOwner, signals>>
    /\ UNCHANGED childVars
    /\ UNCHANGED subVars
    /\ UNCHANGED callVars
StopWait ==
    /\ phase = "waiting"
    /\ phase' = "stopped"
    /\ signals' = IF childState # "exited" THEN Append(signals, "kill") ELSE signals
    /\ childState' = "exited"
    /\ UNCHANGED <<process, childMode, loopOwner, childIn, childOut, replies,
                   noise>>
    /\ UNCHANGED subVars
    /\ UNCHANGED callVars

Next ==
    \/ StartMcpServer
    \/ StartFails
    \/ \E c \in Callers :
          \/ MsgReceive(c)
          \/ MsgReject(c)
          \/ MsgAck(c)
          \/ MsgSend(c)
          \/ MsgSendFail(c)
          \/ McpSkipLine(c)
          \/ McpFail(c)
          \/ McpReply(c)
          \/ HealthHandler(c)
    \/ \E s \in Subs :
          \/ SseConnect(s)
          \/ SseEndpoint(s)
          \/ SseGet(s)
          \/ SseWrite(s)
          \/ SseCancel(s)
    \/ ChildAnswer
    \/ ChildNoise
    \/ ChildCloseStdout
    \/ ChildExit
    \/ Shutdown
    \/ StopTerminate
    \/ StopWait

Spec == Init /\ [][Next]_vars

\* =================================================================== claims
IsRequest(c) == payload[c].body = "object" /\ payload[c].hasId
Handled(c) == cpc[c] \in {"reading", "done"}
InFlight == {c \in Callers : cpc[c] = "reading"}
Answered200(c) ==
    cpc[c] = "done" /\ result[c].status = 200 /\ result[c].kind = "json"

\* C1: against a child that answers every input line with one structured
\* line echoing its id, the child is written once per request, emits one
\* structured line per request, and every caller that has its answer has the
\* reply with the id of its own request, whatever the interleaving.
C1_Pairing ==
    childMode = "echo" =>
        /\ \A c \in Callers :
              (cpc[c] = "done" /\ IsRequest(c)) =>
                  /\ Answered200(c)
                  /\ result[c].body.id = payload[c].id
        /\ writes = Cardinality({c \in Callers : Handled(c) /\ IsRequest(c)})
        /\ replies <= writes
        /\ (\A c \in Callers : cpc[c] = "done" /\ IsRequest(c)) => replies = NumCallers

\* Two requests with different ids were pending together; the later one was
\* served first and both have their own reply.
C1_Witness ==
    /\ childMode = "echo"
    /\ \A c \in Callers : Answered200(c) /\ IsRequest(c)
    /\ payload[1].id # payload[2].id
    /\ bcastLog # <<>>
    /\ bcastLog[1].by = 2
    /\ writes = NumCallers
    /\ replies = NumCallers

\* C2: at most one exchange is in flight: no two handlers have written
\* their request and not yet had their reply or failure.
C2_SingleFlight ==
    /\ Cardinality(InFlight) <= 1
    /\ InFlight # {} => loopOwner \in InFlight

\* One exchange waits for the child while another request is pending.
C2_Witness ==
    \E c, d \in Callers :
        /\ cpc[c] = "reading"
        /\ cpc[d] = "parse"
        /\ IsRequest(d)
        /\ childIn # <<>>

\* What the broadcasts logged so far owe subscriber s.
Received(s) ==
    LET mine == SelectSeq(bcastLog, LAMBDA e : s \in e.members)
    IN [i \in 1..Len(mine) |-> Dumps(mine[i].msg)]

\* C3: a broadcast puts its message once on the queue of every subscriber
\* registered when it starts and on no other queue; a subscriber that
\* registers later never gets it.
C3_ExactlyOnce ==
    \A s \in Subs :
        /\ enqueued[s] = Received(s)
        /\ spc[s] = "idle" => (enqueued[s] = <<>> /\ queue[s] = <<>>)
        /\ spc[s] = "endpoint" => queue[s] = enqueued[s]

\* Subscriber 1 got a broadcast that subscriber 2, registered since, did
\* not get.
C3_Witness ==
    /\ bcastLog # <<>>
    /\ bcastLog[1].members = {1}
    /\ enqueued[1] # <<>>
    /\ 2 \in clients
    /\ enqueued[2] = <<>>

\* The position in the broadcast order of an entry of a queue.
BroadcastIndex(text) ==
    CHOOSE i \in 0..Len(bcastLog) :
        IF \E k \in 1..Len(bcastLog) : Dumps(bcastLog[k].msg) = text
        THEN i > 0 /\ Dumps(bcastLog[i].msg) = text
        ELSE i = 0
MessageEvents(s) == SelectSeq(stream[s], LAMBDA e : e.event = "message")

\* C4: the message events written to one subscriber are in the order of
\* their broadcasts.
C4_Fifo ==
    \A s \in Subs :
        \A i, j \in 1..Len(MessageEvents(s)) :
            i < j => /\ BroadcastIndex(MessageEvents(s)[i].data) > 0
                     /\ BroadcastIndex(MessageEvents(s)[i].data)
                            < BroadcastIndex(MessageEvents(s)[j].data)

\* A subscriber was sent two messages that waited in its queue together.
C4_Witness ==
    \E s \in Subs :
        /\ Len(MessageEvents(s)) = 2
        /\ Len(bcastLog) = 2
        /\ bcastLog[1].members = bcastLog[2].members

WriteFailed(s) ==
    closedBy[s] \in {"endpoint write failed", "message write failed"}

\* C5: a failed write to one subscriber's transport removes that subscriber
\* from the registry and touches nothing else: the other subscribers keep
\* their place, their queues and their streams, no call changes its
\* outcome; and every broadcast, before or after, is put on the queue of
\* every subscriber registered at its time and answers its caller with 200.
C5_StepIsolated ==
    \A s \in Subs :
        (~WriteFailed(s) /\ WriteFailed(s)') =>
            /\ s \in clients
            /\ clients' = clients \ {s}
            /\ \A t \in Subs \ {s} :
                  /\ spc'[t] = spc[t]
                  /\ queue'[t] = queue[t]
                  /\ stream'[t] = stream[t]
            /\ UNCHANGED <<cpc, result, bcastLog, childIn, childOut, loopOwner>>
C5_Delivered ==
    /\ \A s \in Subs : WriteFailed(s) => s \notin clients
    /\ \A i \in 1..Len(bcastLog) :
          /\ Answered200(bcastLog[i].by)
          /\ \A t \in bcastLog[i].members :
                \E k \in 1..Len(enqueued[t]) :
                    enqueued[t][k] = Dumps(bcastLog[i].msg)
C5_FailureIsolation == [][C5_StepIsolated]_vars /\ []C5_Delivered

\* Subscriber 1 was dropped for a failed write; a broadcast made since went
\* to subscriber 2 alone and was written to its stream.
C5_Witness ==
    /\ closedBy[1] = "message write failed"
    /\ 2 \in clients
    /\ \E i \in 1..Len(bcastLog) :
          /\ bcastLog[i].members = {2}
          /\ \E k \in 1..Len(stream[2]) :
                stream[2][k] = MessageEvent(Dumps(bcastLog[i].msg))

HandlerStep(c) == cpc'[c] # cpc[c]

\* C6: a notification (an object without 'id') is answered with an empty
\* 200; nothing is written to or read from the child and no queue and no
\* registry entry changes.
C6_StepNotification ==
    \A c \in Callers :
        (cpc[c] = "parse" /\ payload[c].body = "object" /\ ~payload[c].hasId
            /\ HandlerStep(c)) =>
            /\ cpc'[c] = "done"
            /\ result'[c] = [status |-> 200, kind |-> "empty"]
            /\ UNCHANGED <<childIn, childOut, writes, queue, enqueued,
                           clients, bcastLog>>
C6_NotificationAck == [][C6_StepNotification]_vars

\* A notification was acknowledged while a subscriber was registered and the
\* child was running.
C6_Witness ==
    \E c \in Callers :
        /\ cpc[c] = "done"
        /\ payload[c].body = "object"
        /\ ~payload[c].hasId
        /\ result[c] = [status |-> 200, kind |-> "empty"]
        /\ clients # {}
        /\ childState = "running"
        /\ writes = 0

\* C7: a successful exchange returns, with status 200, the structured line
\* read from the child; the same object is broadcast once, to the
\* subscribers registered then, and is on their queues when the reply is
\* returned.
C7_StepReply ==
    \A c \in Callers :
        (~Answered200(c) /\ Answered200(c)') =>
            /\ childOut # <<>>
            /\ Head(childOut).t = "json"
            /\ result'[c].body = Head(childOut).val
            /\ bcastLog' = Append(bcastLog, [msg |-> result'[c].body,
                                             members |-> clients, by |-> c])
            /\ \A s \in Subs :
                  queue'[s] = IF s \in clients
                              THEN Append(queue[s], Dumps(result'[c].body))
                              ELSE queue[s]
C7_Returned ==
    \A c \in Callers :
        Answered200(c) =>
            Cardinality({i \in 1..Len(bcastLog) :
                            bcastLog[i].by = c /\ bcastLog[i].msg = result[c].body}) = 1
C7_ReplyBroadcast == [][C7_StepReply]_vars /\ []C7_Returned

\* A request was answered and its reply broadcast to a registered subscriber.
C7_Witness ==
    \E c \in Callers :
        /\ Answered200(c)
        /\ \E i \in 1..Len(bcastLog) :
              /\ bcastLog[i].by = c
              /\ bcastLog[i].members # {}
              /\ bcastLog[i].msg.id = payload[c].id

\* C8: when the child's output ends before a structured line is read, the
\* caller gets a 500 error envelope with the id of its request, and nothing
\* is broadcast: no queue gains an entry.
C8_StepEof ==
    \A c \in Callers :
        (cpc[c] = "reading" /\ childOut = <<>> /\ HandlerStep(c)) =>
            /\ childState \in {"mute", "exited"}
            /\ cpc'[c] = "done"
            /\ result'[c].status = 500
            /\ result'[c].kind = "json"
            /\ result'[c].body.id = payload[c].id
            /\ result'[c].body.error.code = InternalError
            /\ UNCHANGED <<queue, enqueued, bcastLog, clients>>
C8_ChildClosed == [][C8_StepEof]_vars

\* An exchange failed at end of stream while a subscriber was registered.
C8_Witness ==
    \E c \in Callers :
        /\ cpc[c] = "done"
        /\ result[c].status = 500
        /\ result[c].kind = "json"
        /\ result[c].body.error.message = "MCP server closed connection"
        /\ result[c].body.id = payload[c].id
        /\ clients # {}
        /\ bcastLog = <<>>

\* C9: a body that is not JSON is answered with an error response and
\* nothing else: the child is neither written to nor read from, no queue and
\* no registry entry changes.
C9_StepMalformed ==
    \A c \in Callers :
        (cpc[c] = "parse" /\ payload[c].body = "garbage" /\ HandlerStep(c)) =>
            /\ cpc'[c] = "done"
            /\ result'[c].status = 500
            /\ result'[c].kind = "json"
            /\ result'[c].body.error.code = InternalError
            /\ UNCHANGED <<childIn, childOut, writes, queue, enqueued,
                           clients, bcastLog>>
C9_MalformedRejected == [][C9_StepMalformed]_vars

\* A malformed body was rejected while a subscriber was registered and the
\* child was running.
C9_Witness ==
    \E c \in Callers :
        /\ cpc[c] = "done"
        /\ payload[c].body = "garbage"
        /\ result[c].status = 500
        /\ clients # {}
        /\ childState = "running"

\* The id a caller's error envelope is to carry: that of its message, when
\* the body was an object with an id.
KnownId(c) == IF IsRequest(c) THEN payload[c].id ELSE None

\* C10: every call ends with 200 and the reply, with an empty 200, or with
\* 500 and an error envelope {jsonrpc, id, error {code -32603, message}}
\* carrying the id of the request when it is known; no exception leaves the
\* handler.
C10_ThreeOutcomes ==
    \A c \in Callers :
        (cpc[c] = "done" /\ payload[c] # ProbeCall) =>
            \/ Answered200(c)
            \/ result[c] = [status |-> 200, kind |-> "empty"]
            \/ /\ result[c].status = 500
               /\ result[c].kind = "json"
               /\ result[c].body.jsonrpc = "2.0"
               /\ result[c].body.id = KnownId(c)
               /\ result[c].body.error.code = InternalError

\* ------------------------------------------------------------- C11, C12
\* The signals stop_mcp_server has sent are the graceful one, then at most
\* the forceful one.
C11_Order == signals \in {<<>>, <<"term">>, <<"term", "kill">>}

\* When stop_mcp_server has returned, the child it was called on has exited.
C11_Terminated == (phase = "stopped" /\ process # "none") => childState = "exited"

\* The forceful signal is sent only by the wait that timed out on a child
\* still running, after the graceful one.
C11_StepKill ==
    (signals' # signals /\ signals'[Len(signals')] = "kill") =>
        /\ phase = "waiting"
        /\ childState # "exited"
        /\ signals = <<"term">>

\* A wait that finds the child exited sends nothing.
C11_StepNoKill ==
    (phase = "waiting" /\ phase' = "stopped" /\ childState = "exited") =>
        signals' = signals

\* C11: stopping a running child ends with the child terminated: the
\* graceful signal is sent first, the wait follows, the forceful signal is
\* sent exactly when the child is still running at the end of the wait, and
\* never before the graceful signal and the wait.
C11_StopEnds ==
    [][C11_StepKill /\ C11_StepNoKill]_vars /\ [](C11_Order /\ C11_Terminated)

\* A stop returned after the child ignored the graceful signal and was
\* killed.
C11_Witness ==
    /\ phase = "stopped"
    /\ signals = <<"term", "kill">>
    /\ childState = "exited"
    /\ childMode = "echo"

\* A stop returned after the child exited within the wait.
C11_WitnessGraceful ==
    /\ phase = "stopped"
    /\ signals = <<"term">>
    /\ childState = "exited"
    /\ childMode = "echo"

\* A step of stop_mcp_server that finds nothing to stop: no child was ever
\* started, or an earlier stop has returned, or the child has exited.
C12_StepNoop ==
    /\ (process = "none" /\ phase \in {"cleanup", "stopped"}) =>
           /\ phase' = "stopped"
           /\ UNCHANGED <<process, signals, childState, childIn, childOut>>
    /\ phase = "stopped" =>
           /\ phase' \in {"waiting", "stopped"}
           /\ UNCHANGED <<process, signals, childState, childIn, childOut>>
    /\ (phase = "waiting" /\ childState = "exited") =>
           /\ phase' = "stopped"
           /\ UNCHANGED <<process, signals, childState, childIn, childOut>>

\* C12: stop is idempotent: with no child ever started it changes nothing,
\* and a second stop after a completed one sends no signal and leaves the
\* child as the first stop left it.
C12_Idempotent == [][C12_StepNoop]_vars

\* A second stop is under way on a child the first stop killed.
C12_Witness ==
    /\ phase = "waiting"
    /\ signals = <<"term", "kill">>
    /\ childState = "exited"

\* A stop has returned with no child ever started.
C12_WitnessNoChild == phase = "stopped" /\ process = "none"

\* ------------------------------------------------------------- C13, C14
\* Caller c's step is a call of the health endpoint.
ProbeStep(c) == HandlerStep(c) /\ payload'[c] = ProbeCall

\* C13: a probe is answered 200 'healthy' exactly when the bridge has a
\* process handle and the child has not exited, and 503 'unhealthy'
\* otherwise; it changes neither the registry nor a queue nor the child's
\* streams.
C13_StepProbe ==
    \A c \in Callers :
        ProbeStep(c) =>
            /\ cpc'[c] = "done"
            /\ result'[c].status \in {200, 503}
            /\ result'[c].status = 200 <=>
                   (process = "popen" /\ childState \in {"running", "mute"})
            /\ result'[c].body =
                   (IF result'[c].status = 200 THEN "healthy" ELSE "unhealthy")
            /\ UNCHANGED <<clients, queue, enqueued, pending, stream, spc,
                           childIn, childOut, childState, process, signals,
                           writes, bcastLog>>
C13_Health == [][C13_StepProbe]_vars

\* One probe found the child running and a later one found it exited, while
\* a subscriber was registered.
C13_Witness ==
    /\ cpc[1] = "done" /\ payload[1] = ProbeCall /\ result[1].status = 200
    /\ cpc[2] = "done" /\ payload[2] = ProbeCall /\ result[2].status = 503
    /\ clients # {}

\* Caller c's exchange failed at the end of the child's output stream.
EofFailed(c) ==
    /\ cpc[c] = "done"
    /\ result[c].status = 500
    /\ result[c].kind = "json"
    /\ result[c].body.error.message = "MCP server closed connection"

\* C14: once an exchange has failed because the child's output stream
\* ended, no child is started again and every probe is answered unhealthy.
C14_StepAfterEof ==
    (\E c \in Callers : EofFailed(c)) =>
        /\ process' = process
        /\ childState # "running" => childState' # "running"
        /\ \A d \in Callers : ProbeStep(d) => result'[d].status = 503
C14_UnhealthyAfterEof == [][C14_StepAfterEof]_vars

\* The part of C14 the code keeps: after such a failure no child is started.
C14_NoRestart ==
    [][(\E c \in Callers : EofFailed(c)) =>
          (process' = process /\ (childState # "running" => childState' # "running"))]_vars

\* ------------------------------------------------------------------ C15
\* C15: an exchange writes exactly one line to the child, drops only blank
\* and non-protocol lines, returns the first structured line not yet
\* consumed and consumes nothing after it, and fails exactly when the end of
\* the stream is reached before a structured line.
C15_StepExchange ==
    \A c \in Callers :
        /\ (cpc[c] = "parse" /\ cpc'[c] = "reading") =>
               /\ childIn' = Append(childIn, Dumps(Message(payload[c])))
               /\ writes' = writes + 1
        /\ (cpc[c] = "reading" /\ cpc'[c] = "reading" /\ childOut # <<>>
             /\ childOut' = Tail(childOut)) =>
               Head(childOut).t \in {"blank", "log"}
        /\ (cpc[c] = "reading" /\ cpc'[c] = "done") =>
               /\ childIn' = childIn
               /\ IF childOut # <<>> /\ Head(childOut).t = "json"
                  THEN /\ result'[c] = Reply(Head(childOut).val)
                       /\ childOut' = Tail(childOut)
                  ELSE /\ result'[c].status = 500
                       /\ childOut = <<>>
                       /\ childState \in {"mute", "exited"}
C15_Exchange == [][C15_StepExchange]_vars

\* ------------------------------------------------------------------ C16
\* C16: whatever has been written to a subscriber's stream starts with the
\* endpoint event, and every event after it is a message event: no message
\* precedes the endpoint event and the endpoint event is written once.
C16_EndpointFirst ==
    \A s \in Subs :
        stream[s] # <<>> =>
            /\ stream[s][1] = EndpointEvent
            /\ \A i \in 2..Len(stream[s]) : stream[s][i].event = "message"

\* A response was broadcast to a subscriber that had registered and not yet
\* written its endpoint event.
C16_Witness ==
    \E s \in Subs :
        /\ spc[s] = "endpoint"
        /\ s \in clients
        /\ queue[s] # <<>>
        /\ stream[s] = <<>>

\* That subscriber's stream later on: the endpoint event, then the message.
C16_WitnessStream ==
    \E s \in Subs :
        /\ Len(stream[s]) = 2
        /\ stream[s][1] = EndpointEvent
        /\ stream[s][2].event = "message"

\* ------------------------------------------------------------------ C17
\* The handler of subscriber s is between registration and its finally
\* block.
Live(s) == spc[s] \in {"endpoint", "waiting", "writing"}

\* A queue is registered only while its handler runs; the queue of a handler
\* that has ended is not registered, and discarding it again changes
\* nothing.
C17_Registry ==
    \A s \in Subs :
        /\ s \in clients => Live(s)
        /\ spc[s] = "closed" => (s \notin clients /\ Discard(clients, s) = clients)

\* The queue of a handler that has ended receives nothing and is not
\* registered again.
C17_StepRemoved ==
    \A s \in Subs :
        spc[s] = "closed" =>
            /\ enqueued'[s] = enqueued[s]
            /\ queue'[s] = queue[s]
            /\ s \notin clients'

\* C17: the registry holds a subscriber's queue only while its handler
\* runs: however the handler ends its queue has been removed, removing it
\* again is harmless, and a removed queue gets no further broadcast.
C17_Membership == [][C17_StepRemoved]_vars /\ []C17_Registry

\* A subscriber received one response, its handler ended, and a later
\* response was broadcast without it.
C17_Witness ==
    \E s \in Subs :
        /\ spc[s] = "closed"
        /\ Len(bcastLog) = 2
        /\ s \in bcastLog[1].members
        /\ s \notin bcastLog[2].members
        /\ Len(enqueued[s]) = 1

\* ------------------------------------------------------------------ C18
\* C18: a broadcast is not disturbed by subscribers that connect or
\* disconnect: it runs over the registry as it was when it started, no
\* subscriber registers or is removed before it ends, every subscriber
\* registered at its start and at its end has the message as the newest
\* entry of its queue, and the call that broadcasts is answered 200.
C18_StepBroadcast ==
    bcastLog' # bcastLog =>
        LET e == bcastLog'[Len(bcastLog')]
        IN /\ e.members = clients
           /\ clients' = clients
           /\ spc' = spc
           /\ \A s \in e.members \cap clients' :
                  queue'[s] = Append(queue[s], Dumps(e.msg))
           /\ result'[e.by] = Reply(e.msg)
           /\ cpc'[e.by] = "done"
C18_BroadcastTolerant == [][C18_StepBroadcast]_vars

\* Two broadcasts ran over different registries: between them one
\* subscriber left and another joined, and each call was answered 200.
C18_Witness ==
    /\ Len(bcastLog) = 2
    /\ \E s, t \in Subs :
          /\ s \in bcastLog[1].members /\ s \notin bcastLog[2].members
          /\ t \in bcastLog[2].members /\ t \notin bcastLog[1].members
          /\ Len(enqueued[s]) = 1
          /\ Len(enqueued[t]) = 1
    /\ \A i \in 1..2 : result[bcastLog[i].by] = Reply(bcastLog[i].msg)

\* A broadcast reached a subscriber that was connecting (its endpoint event
\* not yet written) and one that was writing an earlier event.
C18_WitnessBusy ==
    /\ Len(bcastLog) = 2
    /\ \E s, t \in Subs :
          /\ spc[s] = "endpoint" /\ Len(queue[s]) = 1
          /\ spc[t] = "writing" /\ Len(queue[t]) = 1
          /\ bcastLog[2].members = {s, t}

\* ------------------------------------------------------------------ C19
\* The exchange of caller c returns a reply in this step.
ReplyStep(c) == cpc[c] = "reading" /\ cpc'[c] = "done" /\ result'[c].status = 200

\* C19: the reply returned for the k-th exchange on the child is the k-th
\* structured line the child has written since it was started, whatever ids
\* the lines carry.
C19_StepPositional ==
    \A c \in Callers : ReplyStep(c) => result'[c].body.result = writes
C19_Positional == [][C19_StepPositional]_vars

\* What the code keeps of C19: the k-th reply returned is the k-th
\* structured line, whatever its id, so an unsolicited structured line is
\* returned as a reply.
C19_StepReturned ==
    \A c \in Callers :
        ReplyStep(c) =>
            /\ result'[c].body.result = Len(bcastLog) + 1
            /\ result'[c].body = Head(childOut).val
C19_ReturnedInOrder == [][C19_StepReturned]_vars

\* An unsolicited structured line was returned to the first request, and the
\* second request got the reply to the first.
C19_WitnessShifted ==
    /\ \A c \in Callers : IsRequest(c) /\ cpc[c] = "done" /\ result[c].status = 200
    /\ payload[1].id # payload[2].id
    /\ ~result[1].body.hasId
    /\ result[2].body.hasId
    /\ result[2].body.id = payload[1].id

\* ------------------------------------------------------------------ C20
\* C20: from the write of an exchange to its return no other handler takes
\* a step: no event is written to a subscriber, no probe and no other call
\* is handled, no subscriber registers or is removed, and stop does not
\* begin; while the child has written nothing and has not closed its
\* output, the exchange itself does not return either.
C20_StepExclusive ==
    \A c \in Callers :
        cpc[c] = "reading" =>
            /\ \A d \in Callers \ {c} :
                   /\ cpc'[d] = cpc[d]
                   /\ result'[d] = result[d]
                   /\ payload'[d] = payload[d]
            /\ UNCHANGED <<spc, stream, pending, clients, closedBy>>
            /\ UNCHANGED <<phase, process, signals, writes>>
            /\ Len(childIn') <= Len(childIn)
            /\ cpc'[c] = "reading" => UNCHANGED <<queue, enqueued, bcastLog, result>>
            /\ (childOut = <<>> /\ childState = "running") => cpc'[c] = "reading"
====
